---- MODULE Spec2Model ----
(***************************************************************************)
(* TaskFlow: the title sanitizer (utils/sanitize) and the task store       *)
(* (hooks/useTasks).  Strings are sequences of one-character strings, so   *)
(* the regular expressions of the sanitizer are modelled character by      *)
(* character.                                                              *)
(***************************************************************************)
EXTENDS Integers, Sequences, FiniteSets, TLC

VARIABLES
    html,           \* sanitizer: the string handed to sanitizeTitle / plainText
    phase,          \* sanitizer: "input" before the call, "done" after it
    out,            \* sanitizer: sanitizeTitle(html) of utils/sanitize.ts
    outScript,      \* sanitizer: sanitizeTitle(html) of the variant that also drops script elements
    plain,          \* sanitizer: plainText(html)
    tasks,          \* store: useState<Task[]>, the canonical collection
    filterStatus,   \* store: useState<FilterStatus>
    filterPriority, \* store: useState<Priority | 'all'>
    storageError,   \* store: useState<StorageError>
    stored,         \* localStorage: the item under STORAGE_KEY
    writable,       \* localStorage: TRUE when setItem works, FALSE when it throws
    lastSave,       \* history: how the most recent call of setItem ended
    loaded,         \* history: what getItem found when the store was constructed
    ifSaved,        \* history: the collection the same calls give when every save succeeds
    nextId,         \* crypto.randomUUID: the ids 1..nextId-1 have been handed out
    pending,        \* React: the updaters passed to setTasks since the last render
    lastRender,     \* history: the calls the last render served and the saves its effect tried
    calls,          \* history: the number of calls of the store's operations
    event,          \* components: the last event a handler of AddTask or TaskItem took
    priority,       \* AddTask: useState<Priority>
    dueDate,        \* AddTask: useState('')
    expanded,       \* AddTask: useState(false), the options are shown
    hasContent,     \* AddTask: useState(false), the Add button is shown
    onAddCalls,     \* AddTask: the number of calls of the onAdd prop
    lastOnAdd,      \* AddTask: the argument of the last call of onAdd
    task,           \* TaskItem: the task prop
    isEditing,      \* TaskItem: useState(false)
    isDragging,     \* TaskItem: isDragging of useSortable
    editor,         \* TaskItem: innerHTML of the title editor, empty while there is none
    onUpdateCalls,  \* TaskItem: the number of calls of the onUpdate prop
    lastOnUpdate    \* TaskItem: the arguments of the last call of onUpdate

sanVars == <<html, phase, out, outScript, plain>>
batchVars == <<pending, lastRender, calls>>
formVars == <<priority, dueDate, expanded, hasContent, onAddCalls, lastOnAdd>>
itemVars == <<task, isEditing, isDragging, editor, onUpdateCalls, lastOnUpdate>>
uiVars == <<event, formVars, itemVars>>
storeVars == <<tasks, filterStatus, filterPriority, storageError, stored, writable, lastSave, loaded, ifSaved, nextId,
               pending, lastRender, calls>>
vars == <<html, phase, out, outScript, plain,
          tasks, filterStatus, filterPriority, storageError, stored, writable, lastSave, loaded, ifSaved, nextId,
          pending, lastRender, calls,
          event, priority, dueDate, expanded, hasContent, onAddCalls, lastOnAdd,
          task, isEditing, isDragging, editor, onUpdateCalls, lastOnUpdate>>

----------------------------------------------------------------------------
(* Characters *)

Uppers == <<"A","B","C","D","E","F","G","H","I","J","K","L","M",
            "N","O","P","Q","R","S","T","U","V","W","X","Y","Z">>
Lowers == <<"a","b","c","d","e","f","g","h","i","j","k","l","m",
            "n","o","p","q","r","s","t","u","v","w","x","y","z">>
Digits == {"0","1","2","3","4","5","6","7","8","9"}

UpperSet == {Uppers[k] : k \in 1..26}
LowerSet == {Lowers[k] : k \in 1..26}

\* the /i flag: letters compare by their lower-case form
Lower(c) ==
    IF c \in UpperSet THEN Lowers[CHOOSE k \in 1..26 : Uppers[k] = c] ELSE c

\* \w of the regular expressions, which decides \b
IsWordChar(c) == c \in LowerSet \/ c \in UpperSet \/ c \in Digits \/ c = "_"

\* \s of the regular expressions and the white space String.prototype.trim removes
IsSpace(c) == c \in {" ", "\t", "\n", "\r", "\f"}

\* the literal lit (lower case) occurs in s at index i, compared under /i
MatchLit(s, i, lit) ==
    /\ i >= 1
    /\ i + Len(lit) - 1 <= Len(s)
    /\ \A k \in 1..Len(lit) : Lower(s[i + k - 1]) = lit[k]

\* index of the first ">" at or after i, 0 when there is none: where [^>]*> ends
FirstGT(s, i) ==
    LET S == {j \in i..Len(s) : s[j] = ">"}
    IN  IF S = {} THEN 0 ELSE CHOOSE j \in S : \A k \in S : j <= k

\* \b right after a word character that ends at index i
BoundaryAfter(s, i) == i = Len(s) \/ ~IsWordChar(s[i + 1])

StrongName == <<"s","t","r","o","n","g">>
EmName     == <<"e","m">>
UName      == <<"u">>
ScriptOpen == <<"<","s","c","r","i","p","t">>
ScriptClose == <<"<","/","s","c","r","i","p","t",">">>

----------------------------------------------------------------------------
(* The regular expressions of sanitizeTitle and plainText.  Each XxxEnd(s, i) *)
(* is the index of the last character of the match that starts at index i,    *)
(* or 0 when the expression does not match there.                             *)

\* /<script[^>]*>[\s\S]*?<\/script>/gi
ScriptEnd(s, i) ==
    IF ~MatchLit(s, i, ScriptOpen) THEN 0
    ELSE LET g == FirstGT(s, i + Len(ScriptOpen))
         IN  IF g = 0 THEN 0
             ELSE LET C == {j \in (g + 1)..Len(s) : MatchLit(s, j, ScriptClose)}
                  IN  IF C = {} THEN 0
                      ELSE (CHOOSE j \in C : \A k \in C : j <= k) + Len(ScriptClose) - 1

\* /<b[^>]*>/gi and /<i[^>]*>/gi, which take every tag whose name starts with c
LegacyOpenEndPrefix(s, i, c) ==
    IF ~MatchLit(s, i, <<"<", c>>) THEN 0 ELSE FirstGT(s, i + 2)

\* /<b(\s[^>]*)?>/gi and /<i(\s[^>]*)?>/gi, c the letter
LegacyOpenEnd(s, i, c) ==
    IF ~MatchLit(s, i, <<"<", c>>) \/ i + 2 > Len(s) THEN 0
    ELSE IF s[i + 2] = ">" THEN i + 2
    ELSE IF IsSpace(s[i + 2]) THEN FirstGT(s, i + 3)
    ELSE 0

\* /<\/b>/gi and /<\/i>/gi, c the letter
LegacyCloseEnd(s, i, c) ==
    IF MatchLit(s, i, <<"<", "/", c, ">">>) THEN i + 3 ELSE 0

AllowedNames == {StrongName, EmName, UName}

\* the lookahead \/?(?:strong|em|u)\b tried at index j
AllowedAhead(s, j) ==
    LET k == IF j <= Len(s) /\ s[j] = "/" THEN j + 1 ELSE j
    IN  \E name \in AllowedNames :
            MatchLit(s, k, name) /\ BoundaryAfter(s, k + Len(name) - 1)

\* /<(?!\/?(?:strong|em|u)\b)[^>]*>/gi
DisallowedEnd(s, i) ==
    IF s[i] = "<" /\ ~AllowedAhead(s, i + 1) THEN FirstGT(s, i + 1) ELSE 0

\* the name captured by (strong|em|u) at index j, <<>> when none matches
AllowedNameAt(s, j) ==
    IF \E name \in AllowedNames : MatchLit(s, j, name)
    THEN LET name == CHOOSE name \in AllowedNames : MatchLit(s, j, name)
         IN  SubSeq(s, j, j + Len(name) - 1)
    ELSE <<>>

\* /<(strong|em|u)\s[^>]*>/gi
AttrsEnd(s, i) ==
    LET n == Len(AllowedNameAt(s, i + 1))
    IN  IF s[i] = "<" /\ n > 0 /\ i + n + 1 <= Len(s) /\ IsSpace(s[i + n + 1])
        THEN FirstGT(s, i + n + 2)
        ELSE 0

\* /<[^>]+>/g
AnyTagEnd(s, i) ==
    IF s[i] = "<" /\ i + 1 <= Len(s) /\ s[i + 1] # ">" THEN FirstGT(s, i + 2) ELSE 0

MatchEnd(rule, s, i) ==
    CASE rule = "script"     -> ScriptEnd(s, i)
      [] rule = "bOpen"      -> LegacyOpenEnd(s, i, "b")
      [] rule = "bClose"     -> LegacyCloseEnd(s, i, "b")
      [] rule = "iOpen"      -> LegacyOpenEnd(s, i, "i")
      [] rule = "iClose"     -> LegacyCloseEnd(s, i, "i")
      [] rule = "disallowed" -> DisallowedEnd(s, i)
      [] rule = "attrs"      -> AttrsEnd(s, i)
      [] rule = "anyTag"     -> AnyTagEnd(s, i)

\* the replacement string of each rule, for the match s[i..e]
Replacement(rule, s, i, e) ==
    CASE rule = "bOpen"  -> <<"<">> \o StrongName \o <<">">>
      [] rule = "bClose" -> <<"<", "/">> \o StrongName \o <<">">>
      [] rule = "iOpen"  -> <<"<">> \o EmName \o <<">">>
      [] rule = "iClose" -> <<"<", "/">> \o EmName \o <<">">>
      [] rule = "attrs"  -> <<"<">> \o AllowedNameAt(s, i + 1) \o <<">">>
      [] OTHER           -> <<>>

\* String.prototype.replace with a /g expression: matches are found left to
\* right, do not overlap, and the replacement is not scanned again
RECURSIVE ReplaceFrom(_, _, _)
ReplaceFrom(rule, s, i) ==
    IF i > Len(s) THEN <<>>
    ELSE LET e == MatchEnd(rule, s, i)
         IN  IF e = 0 THEN <<s[i]>> \o ReplaceFrom(rule, s, i + 1)
             ELSE Replacement(rule, s, i, e) \o ReplaceFrom(rule, s, e + 1)

ReplaceAll(rule, s) == ReplaceFrom(rule, s, 1)

\* String.prototype.trim
Trim(s) ==
    LET N == {j \in 1..Len(s) : ~IsSpace(s[j])}
    IN  IF N = {} THEN <<>>
        ELSE SubSeq(s, CHOOSE j \in N : \A k \in N : j <= k,
                       CHOOSE j \in N : \A k \in N : j >= k)

\* src/utils/sanitize.ts
sanitizeTitle(s) ==
    Trim(ReplaceAll("disallowed",
         ReplaceAll("iClose",
         ReplaceAll("iOpen",
         ReplaceAll("bClose",
         ReplaceAll("bOpen", s))))))

\* the variant that first drops script elements and last strips attributes
sanitizeTitleScript(s) ==
    Trim(ReplaceAll("attrs",
         ReplaceAll("disallowed",
         ReplaceAll("iClose",
         ReplaceAll("iOpen",
         ReplaceAll("bClose",
         ReplaceAll("bOpen",
         ReplaceAll("script", s))))))))

\* a plainText that does not trim
plainTextNoTrim(s) == ReplaceAll("anyTag", s)

plainText(s) == Trim(ReplaceAll("anyTag", s))

----------------------------------------------------------------------------
(* The sanitizer as a specification: Init draws the input, Sanitize applies   *)
(* the three functions to it.                                                 *)

MaxLen == 6
MaxPieces == 3

SanChars == {"<", ">", "/", " ", "u", "b"}

\* every string over SanChars of length at most MaxLen
CharInputs == UNION {[1..n -> SanChars] : n \in 0..MaxLen}

\* markup as an editor's innerHTML serialises it, and text
Pieces == {
    <<"<","s","c","r","i","p","t",">">>,
    <<"<","/","s","c","r","i","p","t",">">>,
    <<"<","b",">">>,
    <<"<","/","b",">">>,
    <<"<","I"," ","c","=","x",">">>,
    <<"<","/","i",">">>,
    <<"<","s","t","r","o","n","g"," ","o","n","c","l","i","c","k","=","x",">">>,
    <<"<","b","r",">">>,
    <<"t">>,
    <<" ">> }

\* the inputs of the examples of the repository's tests
ScriptExample ==
    <<"<", "s", "c", "r", "i", "p", "t", ">", "a", "l", "e", "r", "t", "(", "1", ")", "<", "/", "s", "c", "r", "i", "p", "t", ">", "t", "e", "x", "t">>

ExampleInputs == {ScriptExample}

RECURSIVE Concat(_)
Concat(ps) == IF ps = <<>> THEN <<>> ELSE Head(ps) \o Concat(Tail(ps))

\* every concatenation of at most MaxPieces pieces
PieceInputs == {Concat(ps) : ps \in UNION {[1..n -> Pieces] : n \in 0..MaxPieces}}

Null == "null"
Undefined == "undefined"

\* the components before any event: the initial values of their useState, no
\* call of a prop yet
UIIdle ==
    /\ event = "none"
    /\ priority = "medium"
    /\ dueDate = ""
    /\ expanded = FALSE
    /\ hasContent = FALSE
    /\ onAddCalls = 0
    /\ lastOnAdd = [title |-> <<>>, priority |-> "medium", dueDate |-> Undefined]
    /\ task = [id |-> 0, title |-> <<"a">>, completed |-> FALSE, priority |-> "medium",
               createdAt |-> 0, dueDate |-> Undefined]
    /\ isEditing = FALSE
    /\ isDragging = FALSE
    /\ editor = <<>>
    /\ onUpdateCalls = 0
    /\ lastOnUpdate = [id |-> -1, title |-> <<>>]

StoreIdle ==
    /\ tasks = <<>>
    /\ filterStatus = "all"
    /\ filterPriority = "all"
    /\ storageError = Null
    /\ stored = [kind |-> "missing", items |-> <<>>]
    /\ lastSave = [dom |-> FALSE, code |-> 0, name |-> "none"]
    /\ loaded = "missing"
    /\ ifSaved = <<>>
    /\ pending = <<>>
    /\ lastRender = [calls |-> 0, saves |-> 0]
    /\ calls = 0
    /\ UIIdle
    /\ writable = TRUE
    /\ nextId = 1

SanInit ==
    /\ html \in CharInputs \cup PieceInputs \cup ExampleInputs
    /\ phase = "input"
    /\ out = <<>>
    /\ outScript = <<>>
    /\ plain = <<>>
    /\ StoreIdle

Sanitize ==
    /\ phase = "input"
    /\ phase' = "done"
    /\ out' = sanitizeTitle(html)
    /\ outScript' = sanitizeTitleScript(html)
    /\ plain' = plainText(html)
    /\ UNCHANGED <<html, storeVars, uiVars>>

SanNext == Sanitize

SpecSanitize == SanInit /\ [][SanNext]_vars

----------------------------------------------------------------------------
(* The task store, hooks/useTasks.ts.                                         *)

MaxTasks == 3
MaxAdds == 2

Priorities == {"low", "medium", "high"}
FilterStatuses == {"all", "active", "completed"}
FilterPriorities == Priorities \cup {"all"}

\* findIndex(t => t.id === id): the 0-based index of the first match, or -1
findIndex(ts, id) ==
    LET M == {k \in 1..Len(ts) : ts[k].id = id}
    IN  IF M = {} THEN -1 ELSE (CHOOSE k \in M : \A j \in M : k <= j) - 1

\* arrayMove of @dnd-kit/sortable, for 0-based from and to in range:
\* a copy of the array with the element at from taken out and put in at to
arrayMove(array, from, to) ==
    LET x    == array[from + 1]
        rest == SubSeq(array, 1, from) \o SubSeq(array, from + 2, Len(array))
    IN  SubSeq(rest, 1, to) \o <<x>> \o SubSeq(rest, to + 1, Len(rest))

addTaskAtEnd(ts, input, id, now) ==
    ts \o <<[id        |-> id,
             title     |-> Trim(input.title),
             completed |-> FALSE,
             priority  |-> input.priority,
             createdAt |-> now,
             dueDate   |-> input.dueDate]>>

\* the task addTask builds and puts in front; id is crypto.randomUUID(),
\* now is new Date().toISOString()
addTask(ts, input, id, now) ==
    <<[id        |-> id,
       title     |-> Trim(input.title),
       completed |-> FALSE,
       priority  |-> input.priority,
       createdAt |-> now,
       dueDate   |-> input.dueDate]>> \o ts

toggleTaskSetsDone(ts, id) ==
    [k \in 1..Len(ts) |->
        IF ts[k].id = id THEN [ts[k] EXCEPT !.completed = TRUE] ELSE ts[k]]

toggleTask(ts, id) ==
    [k \in 1..Len(ts) |->
        IF ts[k].id = id THEN [ts[k] EXCEPT !.completed = ~ts[k].completed] ELSE ts[k]]

\* splice(findIndex(...), 1): an index of -1 takes out the last element
deleteTaskSplice(ts, id) ==
    LET i == findIndex(ts, id)
    IN  IF ts = <<>> THEN ts
        ELSE IF i = -1 THEN SubSeq(ts, 1, Len(ts) - 1)
        ELSE SubSeq(ts, 1, i) \o SubSeq(ts, i + 2, Len(ts))

deleteTaskKeepsMatch(ts, id) ==
    LET keep(t) == t.id = id IN SelectSeq(ts, keep)

deleteTask(ts, id) ==
    LET keep(t) == t.id # id IN SelectSeq(ts, keep)

clearCompletedKeepsDone(ts) ==
    LET keep(t) == t.completed IN SelectSeq(ts, keep)

clearCompleted(ts) ==
    LET keep(t) == ~t.completed IN SelectSeq(ts, keep)

updateTaskSanitizes(ts, id, title) ==
    [k \in 1..Len(ts) |->
        IF ts[k].id = id THEN [ts[k] EXCEPT !.title = sanitizeTitle(title)] ELSE ts[k]]

updateTask(ts, id, title) ==
    [k \in 1..Len(ts) |->
        IF ts[k].id = id THEN [ts[k] EXCEPT !.title = title] ELSE ts[k]]

\* without the guard, an index of -1 counts from the end of the array
reorderTasksNoGuard(ts, activeId, overId) ==
    LET oldIndex == findIndex(ts, activeId)
        newIndex == findIndex(ts, overId)
        last     == Len(ts) - 1
    IN  IF ts = <<>> THEN ts
        ELSE arrayMove(ts, IF oldIndex = -1 THEN last ELSE oldIndex,
                           IF newIndex = -1 THEN last ELSE newIndex)

reorderTasksSwap(ts, activeId, overId) ==
    LET oldIndex == findIndex(ts, activeId)
        newIndex == findIndex(ts, overId)
    IN  IF oldIndex = -1 \/ newIndex = -1 THEN ts
        ELSE [k \in 1..Len(ts) |->
                IF k = oldIndex + 1 THEN ts[newIndex + 1]
                ELSE IF k = newIndex + 1 THEN ts[oldIndex + 1]
                ELSE ts[k]]

reorderTasks(ts, activeId, overId) ==
    LET oldIndex == findIndex(ts, activeId)
        newIndex == findIndex(ts, overId)
    IN  IF oldIndex = -1 \/ newIndex = -1 THEN ts
        ELSE arrayMove(ts, oldIndex, newIndex)

\* reorderTasks hands React the array it was given (return prev) exactly when
\* an id is missing; every other updater builds a new array
reorderReturnsPrev(ts, activeId, overId) ==
    findIndex(ts, activeId) = -1 \/ findIndex(ts, overId) = -1

\* a view that takes a task when either filter lets it through
filteredTasksEither ==
    LET match(t) ==
            \/ \/ filterStatus = "all"
               \/ filterStatus = "active" /\ ~t.completed
               \/ filterStatus = "completed" /\ t.completed
            \/ filterPriority = "all" \/ t.priority = filterPriority
    IN  SelectSeq(tasks, match)

\* the derived view and the statistics of a render
filteredTasks ==
    LET match(t) ==
            /\ \/ filterStatus = "all"
               \/ filterStatus = "active" /\ ~t.completed
               \/ filterStatus = "completed" /\ t.completed
            /\ filterPriority = "all" \/ t.priority = filterPriority
    IN  SelectSeq(tasks, match)

\* the statistics of what is shown
statsOfView ==
    [total     |-> Len(filteredTasks),
     active    |-> Len(LET act(t) == ~t.completed IN SelectSeq(filteredTasks, act)),
     completed |-> Len(LET done(t) == t.completed IN SelectSeq(filteredTasks, done))]

stats ==
    [total     |-> Len(tasks),
     active    |-> Len(LET act(t) == ~t.completed IN SelectSeq(tasks, act)),
     completed |-> Len(LET done(t) == t.completed IN SelectSeq(tasks, done))]

----------------------------------------------------------------------------
(* Persistence: loadTasks, isQuotaError and the effect that saves.           *)

\* JSON.stringify leaves out a property whose value is undefined
stringifyTask(t) ==
    IF t.dueDate = Undefined
    THEN [id |-> t.id, title |-> t.title, completed |-> t.completed,
          priority |-> t.priority, createdAt |-> t.createdAt]
    ELSE t

\* reading a property that JSON.parse did not set gives undefined
parseTask(o) ==
    IF "dueDate" \in DOMAIN o THEN o
    ELSE [id |-> o.id, title |-> o.title, completed |-> o.completed,
          priority |-> o.priority, createdAt |-> o.createdAt, dueDate |-> Undefined]

JSONstringify(ts) == [k \in 1..Len(ts) |-> stringifyTask(ts[k])]
JSONparse(items) == [k \in 1..Len(items) |-> parseTask(items[k])]

\* the item under STORAGE_KEY: absent, unreadable (getItem throws), text that
\* is not JSON, or the JSON text of an array
MissingItem    == [kind |-> "missing",    items |-> <<>>]
UnreadableItem == [kind |-> "unreadable", items |-> <<>>]
CorruptItem    == [kind |-> "corrupt",    items |-> <<>>]
JsonItem(ts)   == [kind |-> "json",       items |-> JSONstringify(ts)]

\* a load that takes what it cannot read for a collection
loadTasksNoCatch(item) ==
    IF item.kind \in {"json", "corrupt", "unreadable"}
    THEN JSONparse(item.items \o <<[id |-> 0, title |-> <<>>, completed |-> FALSE,
                                    priority |-> "low", createdAt |-> 0]>>)
    ELSE <<>>

\* an item whose text is JSON but not the JSON of an array: 'null', '5' and
\* '{"tasks":[]}', and what JSON.parse makes of each
NullItem   == [kind |-> "null",   items |-> <<>>]
NumberItem == [kind |-> "number", items |-> <<>>]
ObjectItem == [kind |-> "object", items |-> <<>>]

NonArrayItems == {NullItem, NumberItem, ObjectItem}
NonArrayKinds == {"null", "number", "object"}

JSONparseValue(item) ==
    IF item.kind = "null" THEN Null
    ELSE IF item.kind = "number" THEN 5
    ELSE [tasks |-> <<>>]

\* Array.isArray of what JSON.parse made of an item of this kind
isArray(kind) == kind \notin NonArrayKinds

loadTasks(item) ==
    IF item.kind = "json" THEN JSONparse(item.items)
    ELSE IF item.kind \in NonArrayKinds THEN JSONparseValue(item)
    ELSE <<>>

\* what a call of localStorage.setItem does: it returns (NoThrow) or throws
NoThrow       == [dom |-> FALSE, code |-> 0,    name |-> "none"]
QuotaExceeded == [dom |-> TRUE,  code |-> 22,   name |-> "QuotaExceededError"]
SecurityError == [dom |-> TRUE,  code |-> 18,   name |-> "SecurityError"]

FirefoxQuota  == [dom |-> TRUE,  code |-> 1014, name |-> "NS_ERROR_DOM_QUOTA_REACHED"]
TypeError     == [dom |-> FALSE, code |-> 0,    name |-> "TypeError"]

\* what the try block of the effect can throw, and which of it says that the
\* storage is full
ThrownErrors == {QuotaExceeded, FirefoxQuota, SecurityError, TypeError}
QuotaErrors  == {QuotaExceeded, FirefoxQuota}

SetItemErrors == {QuotaExceeded, SecurityError}

\* what setItem can do at present
SetItemResults == IF writable THEN {NoThrow} ELSE SetItemErrors

isQuotaError(err) ==
    /\ err.dom
    /\ \/ err.code = 22
       \/ err.name = "QuotaExceededError"
       \/ err.name = "NS_ERROR_DOM_QUOTA_REACHED"

\* the storageError the effect sets when setItem ended with r
errorAfterSave(r) ==
    IF r = NoThrow THEN Null
    ELSE IF isQuotaError(r) THEN "full" ELSE "disabled"

\* an effect that leaves the error where it is when setItem returns
SaveEffectNoClear(ts, r) ==
    /\ storageError' = IF r = NoThrow THEN storageError ELSE errorAfterSave(r)
    /\ stored' = IF r = NoThrow THEN JsonItem(ts) ELSE stored
    /\ lastSave' = r

\* an effect that saves what the filters show
SaveEffectOfView(ts, r) ==
    LET match(t) ==
            /\ \/ filterStatus = "all"
               \/ filterStatus = "active" /\ ~t.completed
               \/ filterStatus = "completed" /\ t.completed
            /\ filterPriority = "all" \/ t.priority = filterPriority
    IN  /\ storageError' = errorAfterSave(r)
        /\ stored' = IF r = NoThrow THEN JsonItem(SelectSeq(ts, match)) ELSE stored
        /\ lastSave' = r

\* the effect of useEffect(..., [tasks]) for the collection ts, when setItem
\* ends with r
SaveEffect(ts, r) ==
    /\ storageError' = errorAfterSave(r)
    /\ stored' = IF r = NoThrow THEN JsonItem(ts) ELSE stored
    /\ lastSave' = r

----------------------------------------------------------------------------
(* The store as a state machine.  Every operation is followed by the render   *)
(* and the save effect it causes.                                             *)

TitleA     == <<" ", "a", " ">>
TitleB     == <<"<", "u", ">", "b", "<", "/", "u", ">">>
TitleDirty == <<"<", "p", ">">>

\* what the add-task form passes to addTask.  To keep the state space small
\* the input is drawn from a set that depends on how many tasks were created.
NewTaskInputs(n) ==
    IF n % 2 = 1
    THEN {[title |-> TitleA, priority |-> "low",  dueDate |-> Undefined]}
    ELSE {[title |-> TitleB, priority |-> "high", dueDate |-> "2026-12-31"]}

UpdateTitles == {TitleDirty}

\* the priority filters a user picks
FilterPriorityInputs == {"all", "high"}

\* the ids a caller may pass: of a loaded task (0), of the tasks created in
\* the session, and one that is never handed out
Ids == 0..(MaxAdds + 1)

\* what an earlier session left behind, and an array this program did not write
StoredTask(id, title) ==
    [id |-> id, title |-> title, completed |-> FALSE, priority |-> "medium",
     createdAt |-> 0, dueDate |-> Undefined]

EarlierTasks == <<StoredTask(0, <<"a">>)>>
ForeignTasks == <<StoredTask(0, TitleDirty), StoredTask(0, <<"a">>)>>

InitialItems ==
    {MissingItem, UnreadableItem, CorruptItem, JsonItem(EarlierTasks), JsonItem(ForeignTasks)}

SanIdle ==
    /\ html = <<>>
    /\ phase = "idle"
    /\ out = <<>>
    /\ outScript = <<>>
    /\ plain = <<>>

\* a mount on which a load that failed sets the error by itself
InitLoadSetsError ==
    /\ SanIdle
    /\ writable \in BOOLEAN
    /\ \E item \in InitialItems, r \in SetItemResults :
        /\ tasks = loadTasks(item)
        /\ storageError = IF item.kind \in {"unreadable", "corrupt"} THEN "disabled"
                          ELSE errorAfterSave(r)
        /\ stored = IF r = NoThrow THEN JsonItem(loadTasks(item)) ELSE item
        /\ lastSave = r
        /\ loaded = item.kind
        /\ ifSaved = loadTasks(item)
    /\ filterStatus = "all"
    /\ filterPriority = "all"
    /\ nextId = 1
    /\ pending = <<>>
    /\ lastRender = [calls |-> 0, saves |-> 0]
    /\ calls = 0
    /\ UIIdle

\* useTasks() on mount: the state initialisers, the first render and the first
\* run of the save effect
Init ==
    /\ SanIdle
    /\ writable \in BOOLEAN
    /\ \E item \in InitialItems, r \in SetItemResults :
        /\ tasks = loadTasks(item)
        /\ storageError = errorAfterSave(r)
        /\ stored = IF r = NoThrow THEN JsonItem(loadTasks(item)) ELSE item
        /\ lastSave = r
        /\ loaded = item.kind
        /\ ifSaved = loadTasks(item)
    /\ filterStatus = "all"
    /\ filterPriority = "all"
    /\ nextId = 1
    /\ pending = <<>>
    /\ lastRender = [calls |-> 0, saves |-> 0]
    /\ calls = 0
    /\ UIIdle

\* an add that is undone when the save fails
AddTaskAborts(input, r) ==
    /\ Len(tasks) < MaxTasks
    /\ nextId <= MaxAdds
    /\ tasks' = IF r = NoThrow THEN addTask(tasks, input, nextId, nextId) ELSE tasks
    /\ ifSaved' = addTask(ifSaved, input, nextId, nextId)
    /\ nextId' = nextId + 1
    /\ SaveEffect(tasks', r)
    /\ UNCHANGED <<filterStatus, filterPriority, writable, loaded, sanVars, batchVars, uiVars>>

AddTask(input, r) ==
    /\ Len(tasks) < MaxTasks
    /\ nextId <= MaxAdds
    /\ tasks' = addTask(tasks, input, nextId, nextId)
    /\ ifSaved' = addTask(ifSaved, input, nextId, nextId)
    /\ nextId' = nextId + 1
    /\ SaveEffect(tasks', r)
    /\ UNCHANGED <<filterStatus, filterPriority, writable, loaded, sanVars, batchVars, uiVars>>

ToggleTask(id, r) ==
    /\ tasks' = toggleTask(tasks, id)
    /\ ifSaved' = toggleTask(ifSaved, id)
    /\ SaveEffect(tasks', r)
    /\ UNCHANGED <<filterStatus, filterPriority, writable, loaded, nextId, sanVars, batchVars, uiVars>>

DeleteTask(id, r) ==
    /\ tasks' = deleteTask(tasks, id)
    /\ ifSaved' = deleteTask(ifSaved, id)
    /\ SaveEffect(tasks', r)
    /\ UNCHANGED <<filterStatus, filterPriority, writable, loaded, nextId, sanVars, batchVars, uiVars>>

ClearCompleted(r) ==
    /\ tasks' = clearCompleted(tasks)
    /\ ifSaved' = clearCompleted(ifSaved)
    /\ SaveEffect(tasks', r)
    /\ UNCHANGED <<filterStatus, filterPriority, writable, loaded, nextId, sanVars, batchVars, uiVars>>

UpdateTask(id, title, r) ==
    /\ tasks' = updateTask(tasks, id, title)
    /\ ifSaved' = updateTask(ifSaved, id, title)
    /\ SaveEffect(tasks', r)
    /\ UNCHANGED <<filterStatus, filterPriority, writable, loaded, nextId, sanVars, batchVars, uiVars>>

ReorderTasks(activeId, overId, r) ==
    /\ tasks' = reorderTasks(tasks, activeId, overId)
    /\ ifSaved' = reorderTasks(ifSaved, activeId, overId)
    /\ IF reorderReturnsPrev(tasks, activeId, overId)
       THEN UNCHANGED <<storageError, stored, lastSave>>
       ELSE SaveEffect(tasks', r)
    /\ UNCHANGED <<filterStatus, filterPriority, writable, loaded, nextId, sanVars, batchVars, uiVars>>

\* a setter after which the effect saves
SetFilterStatusSaves(f) ==
    /\ filterStatus' = f
    /\ \E r \in SetItemResults : SaveEffect(tasks, r)
    /\ UNCHANGED <<tasks, filterPriority, writable, loaded, ifSaved, nextId, sanVars, batchVars, uiVars>>

SetFilterStatus(f) ==
    /\ filterStatus' = f
    /\ UNCHANGED <<tasks, filterPriority, storageError, stored, writable, lastSave, loaded, ifSaved, nextId, sanVars, batchVars, uiVars>>

SetFilterPriority(f) ==
    /\ filterPriority' = f
    /\ UNCHANGED <<tasks, filterStatus, storageError, stored, writable, lastSave, loaded, ifSaved, nextId, sanVars, batchVars, uiVars>>

\* a storage that is written to by itself as soon as it takes writes again
StorageRecoversRetries ==
    /\ ~writable
    /\ writable' = TRUE
    /\ SaveEffect(tasks, NoThrow)
    /\ UNCHANGED <<tasks, filterStatus, filterPriority, loaded, ifSaved, nextId, sanVars, batchVars, uiVars>>

\* the environment: a storage that was full or disabled becomes writable
StorageRecovers ==
    /\ ~writable
    /\ writable' = TRUE
    /\ UNCHANGED <<tasks, filterStatus, filterPriority, storageError, stored, lastSave, loaded, ifSaved, nextId, sanVars, batchVars, uiVars>>

Next ==
    \/ \E input \in NewTaskInputs(nextId), r \in SetItemResults : AddTask(input, r)
    \/ \E id \in Ids, r \in SetItemResults : ToggleTask(id, r)
    \/ \E id \in Ids, r \in SetItemResults : DeleteTask(id, r)
    \/ \E r \in SetItemResults : ClearCompleted(r)
    \/ \E id \in Ids, title \in UpdateTitles, r \in SetItemResults : UpdateTask(id, title, r)
    \/ \E a \in Ids, o \in Ids, r \in SetItemResults : ReorderTasks(a, o, r)
    \/ \E f \in FilterStatuses : SetFilterStatus(f)
    \/ \E f \in FilterPriorityInputs : SetFilterPriority(f)
    \/ StorageRecovers

Spec == Init /\ [][Next]_vars

-----------------------------------------------------------------------------
(* The mount over every item, an item that parses to something else than an  *)
(* array included. useState takes what loadTasks returns as it is; the first *)
(* render then calls tasks.filter (useTasks.ts:82), which throws a TypeError *)
(* when tasks is null, a number or an object: the hook returns nothing, the  *)
(* effect does not run and no operation can be called.                       *)

\* the state after a first render that threw
MountThrows ==
    /\ SanIdle
    /\ writable \in BOOLEAN
    /\ \E item \in NonArrayItems :
        /\ tasks = loadTasks(item)
        /\ stored = item
        /\ loaded = item.kind
    /\ storageError = Null
    /\ lastSave = NoThrow
    /\ ifSaved = <<>>
    /\ filterStatus = "all"
    /\ filterPriority = "all"
    /\ nextId = 1
    /\ pending = <<>>
    /\ lastRender = [calls |-> 0, saves |-> 0]
    /\ calls = 0
    /\ UIIdle

MountInit == Init \/ MountThrows

\* the render returned the operations
Mounted == isArray(loaded)

MountNext ==
    \/ Mounted /\ \E input \in NewTaskInputs(nextId), r \in SetItemResults : AddTask(input, r)
    \/ Mounted /\ \E id \in Ids, r \in SetItemResults : ToggleTask(id, r)
    \/ Mounted /\ \E id \in Ids, r \in SetItemResults : DeleteTask(id, r)
    \/ Mounted /\ \E r \in SetItemResults : ClearCompleted(r)
    \/ Mounted /\ \E id \in Ids, title \in UpdateTitles, r \in SetItemResults :
                      UpdateTask(id, title, r)
    \/ Mounted /\ \E a \in Ids, o \in Ids, r \in SetItemResults : ReorderTasks(a, o, r)
    \/ Mounted /\ \E f \in FilterStatuses : SetFilterStatus(f)
    \/ Mounted /\ \E f \in FilterPriorityInputs : SetFilterPriority(f)
    \/ Mounted /\ StorageRecovers

SpecMount == MountInit /\ [][MountNext]_vars

----------------------------------------------------------------------------
(* The store with React's batching.  A call of an operation hands its        *)
(* updater to setTasks, where it waits; the next render runs the waiting     *)
(* updaters in call order, each on the result of the one before, and the     *)
(* save effect runs after the render when the array is a new one.            *)

MaxCalls == 2

NoInput == [title |-> <<>>, priority |-> "low", dueDate |-> Undefined]

\* the updater a call passes to setTasks, with what its closure holds
Updater(op, id, over, title, input) ==
    [op |-> op, id |-> id, over |-> over, title |-> title, input |-> input]

applyUpdater(u, prev) ==
    CASE u.op = "add"     -> addTask(prev, u.input, u.id, u.id)
      [] u.op = "toggle"  -> toggleTask(prev, u.id)
      [] u.op = "delete"  -> deleteTask(prev, u.id)
      [] u.op = "clear"   -> clearCompleted(prev)
      [] u.op = "update"  -> updateTask(prev, u.id, u.title)
      [] u.op = "reorder" -> reorderTasks(prev, u.id, u.over)

\* a render in which the last updater of the queue wins: it runs on the array
\* of the render before, as setTasks(value) would
applyLast(q, prev) ==
    IF q = <<>> THEN prev ELSE applyUpdater(q[Len(q)], prev)

\* the state after the queue of updaters q, run in order from prev
RECURSIVE applyAll(_, _)
applyAll(q, prev) ==
    IF q = <<>> THEN prev ELSE applyAll(Tail(q), applyUpdater(Head(q), prev))

\* a queue of which every updater builds a new array
noneReturnPrev(q, prev) ==
    q = <<>>

\* a queue that counts as unchanged as soon as one of its updaters is a
\* reorder that finds an id missing
someReturnPrev(q, prev) ==
    \E k \in 1..Len(q) :
        /\ q[k].op = "reorder"
        /\ reorderReturnsPrev(prev, q[k].id, q[k].over)

\* every updater of q hands back the array it was given, so that the state
\* after the queue is the very array of before and React renders nothing
RECURSIVE allReturnPrev(_, _)
allReturnPrev(q, prev) ==
    \/ q = <<>>
    \/ /\ Head(q).op = "reorder"
       /\ reorderReturnsPrev(prev, Head(q).id, Head(q).over)
       /\ allReturnPrev(Tail(q), prev)

\* setTasks(updater): the updater joins the queue
Call(u) ==
    /\ calls < MaxCalls
    /\ pending' = Append(pending, u)
    /\ calls' = calls + 1
    /\ ifSaved' = applyUpdater(u, ifSaved)
    /\ UNCHANGED <<tasks, filterStatus, filterPriority, storageError, stored, writable,
                   lastSave, loaded, lastRender, sanVars, uiVars>>

\* an addTask that gives the id of the task created before
CallAddTaskKeepsCounter(input) ==
    /\ Len(ifSaved) < MaxTasks
    /\ nextId <= MaxAdds
    /\ Call(Updater("add", nextId, -1, <<>>, input))
    /\ UNCHANGED nextId

CallAddTask(input) ==
    /\ Len(ifSaved) < MaxTasks
    /\ nextId <= MaxAdds
    /\ Call(Updater("add", nextId, -1, <<>>, input))
    /\ nextId' = nextId + 1

CallToggleTask(id) ==
    /\ Call(Updater("toggle", id, -1, <<>>, NoInput))
    /\ UNCHANGED nextId

CallDeleteTask(id) ==
    /\ Call(Updater("delete", id, -1, <<>>, NoInput))
    /\ UNCHANGED nextId

CallClearCompleted ==
    /\ Call(Updater("clear", -1, -1, <<>>, NoInput))
    /\ UNCHANGED nextId

CallUpdateTask(id, title) ==
    /\ Call(Updater("update", id, -1, title, NoInput))
    /\ UNCHANGED nextId

CallReorderTasks(activeId, overId) ==
    /\ Call(Updater("reorder", activeId, overId, <<>>, NoInput))
    /\ UNCHANGED nextId

\* the render after a batch of calls, and the effect after the render
Render(r) ==
    /\ pending # <<>>
    /\ tasks' = applyAll(pending, tasks)
    /\ pending' = <<>>
    /\ IF allReturnPrev(pending, tasks)
       THEN /\ UNCHANGED <<storageError, stored, lastSave>>
            /\ lastRender' = [calls |-> Len(pending), saves |-> 0]
       ELSE /\ SaveEffect(tasks', r)
            /\ lastRender' = [calls |-> Len(pending), saves |-> 1]
    /\ UNCHANGED <<filterStatus, filterPriority, writable, loaded, ifSaved, nextId, calls, sanVars, uiVars>>

BatchNext ==
    \/ \E input \in NewTaskInputs(nextId) : CallAddTask(input)
    \/ \E id \in Ids : CallToggleTask(id)
    \/ \E id \in Ids : CallDeleteTask(id)
    \/ CallClearCompleted
    \/ \E id \in Ids, title \in UpdateTitles : CallUpdateTask(id, title)
    \/ \E a \in Ids, o \in Ids : CallReorderTasks(a, o)
    \/ \E r \in SetItemResults : Render(r)
    \/ StorageRecovers

SpecBatch == Init /\ [][BatchNext]_vars

----------------------------------------------------------------------------
(* The store behind its two forms.  html is the content of the editor of     *)
(* the add-task form or of the task being edited; the forms look at its      *)
(* plain text before they call the store, the store does not.                *)

ScriptOnly ==
    <<"<", "s", "c", "r", "i", "p", "t", ">", "x", "<", "/", "s", "c", "r", "i", "p", "t", ">">>

\* what an editor may hold: nothing, blanks, text, marked-up text, a tag
\* alone, an empty pair of angle brackets, a script element
FormInputs ==
    {<<>>, <<" ", " ">>, TitleA, TitleB, <<"<", "u", ">">>, <<"<", ">">>, ScriptOnly}

\* the two sanitizeTitle of the sources
SanitizerVersions == {"plain", "script"}

sanitizeTitleOf(v, s) ==
    IF v = "script" THEN sanitizeTitleScript(s) ELSE sanitizeTitle(s)

\* input events of a contentEditable editor
Type(h) ==
    /\ html' = h
    /\ UNCHANGED <<phase, out, outScript, plain, storeVars, uiVars>>

\* AddTask.submit(): nothing happens when the editor has no text; otherwise
\* the sanitized content is added with the default priority and no due date,
\* and the editor is emptied
Submit(v, r) ==
    /\ plainText(html) # <<>>
    /\ Len(tasks) < MaxTasks
    /\ nextId <= MaxAdds
    /\ LET input == [title |-> sanitizeTitleOf(v, html), priority |-> "medium",
                     dueDate |-> Undefined]
       IN  /\ tasks' = addTask(tasks, input, nextId, nextId)
           /\ ifSaved' = addTask(ifSaved, input, nextId, nextId)
    /\ nextId' = nextId + 1
    /\ SaveEffect(tasks', r)
    /\ html' = <<>>
    /\ UNCHANGED <<phase, out, outScript, plain, filterStatus, filterPriority, writable,
                   loaded, batchVars, uiVars>>

\* TaskItem.save() of the task id: the title is replaced when the editor has
\* text, and editing ends either way
SaveEdit(id, v, r) ==
    /\ id \in {tasks[k].id : k \in 1..Len(tasks)}
    /\ IF plainText(html) # <<>>
       THEN /\ tasks' = updateTask(tasks, id, sanitizeTitleOf(v, html))
            /\ ifSaved' = updateTask(ifSaved, id, sanitizeTitleOf(v, html))
            /\ SaveEffect(tasks', r)
       ELSE UNCHANGED <<tasks, ifSaved, storageError, stored, lastSave>>
    /\ html' = <<>>
    /\ UNCHANGED <<phase, out, outScript, plain, filterStatus, filterPriority, writable,
                   loaded, nextId, batchVars, uiVars>>

\* a caller that hands the string to the store as it is
FormCall(title) == [title |-> title, priority |-> "low", dueDate |-> Undefined]

FormNext ==
    \/ \E h \in FormInputs : Type(h)
    \/ \E v \in SanitizerVersions, r \in SetItemResults : Submit(v, r)
    \/ \E id \in Ids, v \in SanitizerVersions, r \in SetItemResults : SaveEdit(id, v, r)
    \/ \E r \in SetItemResults : AddTask(FormCall(html), r)
    \/ \E id \in Ids, r \in SetItemResults : UpdateTask(id, html, r)

\* the app mounted on a browser whose storage is empty and takes writes
FormInit ==
    /\ Init
    /\ loaded = "missing"
    /\ writable

SpecForm == FormInit /\ [][FormNext]_vars

----------------------------------------------------------------------------
(* The add-task form, components/AddTask.tsx, with onAdd as a prop that is   *)
(* only called.  html is the innerHTML of the editor.                        *)

Nbsp   == <<"&", "n", "b", "s", "p", ";">>
BrOnly == <<"<", "b", "r", ">">>

\* what the editor may hold: the strings of FormInputs, the line break a
\* browser leaves in an emptied editor, and the entity it writes for a
\* non-breaking space
EditorInputs == FormInputs \cup {Nbsp, BrOnly}

DueDates == {"", "2026-12-31"}

\* an input event of the editor: the content changed, handleInput runs
handleInput(h) ==
    /\ html' = h
    /\ hasContent' = (Len(plainText(h)) > 0)
    /\ event' = "input"
    /\ UNCHANGED <<priority, dueDate, expanded, onAddCalls, lastOnAdd>>

\* onFocus of the editor
EditorFocus ==
    /\ expanded' = TRUE
    /\ event' = "focus"
    /\ UNCHANGED <<html, priority, dueDate, hasContent, onAddCalls, lastOnAdd>>

\* the priority buttons and the date field, which are there when expanded
SetPriority(p) ==
    /\ expanded
    /\ priority' = p
    /\ event' = "priority"
    /\ UNCHANGED <<html, dueDate, expanded, hasContent, onAddCalls, lastOnAdd>>

SetDueDate(d) ==
    /\ expanded
    /\ dueDate' = d
    /\ event' = "dueDate"
    /\ UNCHANGED <<html, priority, expanded, hasContent, onAddCalls, lastOnAdd>>

\* a submit that calls onAdd whatever the editor holds
submitNoGuard(v) ==
    /\ onAddCalls' = onAddCalls + 1
    /\ lastOnAdd' = [title |-> sanitizeTitleOf(v, html), priority |-> priority,
                     dueDate |-> IF dueDate = "" THEN Undefined ELSE dueDate]
    /\ html' = <<>>
    /\ hasContent' = FALSE
    /\ expanded' = FALSE
    /\ priority' = "medium"
    /\ dueDate' = ""

\* submit()
submit(v) ==
    IF plainText(html) = <<>>
    THEN UNCHANGED <<html, priority, dueDate, expanded, hasContent, onAddCalls, lastOnAdd>>
    ELSE /\ onAddCalls' = onAddCalls + 1
         /\ lastOnAdd' = [title |-> sanitizeTitleOf(v, html), priority |-> priority,
                          dueDate |-> IF dueDate = "" THEN Undefined ELSE dueDate]
         /\ html' = <<>>
         /\ hasContent' = FALSE
         /\ expanded' = FALSE
         /\ priority' = "medium"
         /\ dueDate' = ""

\* onSubmit of the form
handleFormSubmit(v) ==
    /\ onAddCalls < MaxCalls
    /\ submit(v)
    /\ event' = "submit"

\* onKeyDown of the editor.  Shift+Enter and the other keys are left to the
\* browser, whose change of the content arrives as an input event.
handleKeyDown(key, shiftKey, v) ==
    /\ onAddCalls < MaxCalls
    /\ IF key = "Enter" /\ ~shiftKey
       THEN /\ submit(v)
            /\ event' = "enter"
       ELSE IF key = "Escape"
       THEN /\ expanded' = FALSE
            /\ event' = "escape"
            /\ UNCHANGED <<html, priority, dueDate, hasContent, onAddCalls, lastOnAdd>>
       ELSE /\ event' = IF key = "Enter" THEN "shiftEnter" ELSE "key"
            /\ UNCHANGED <<html, priority, dueDate, expanded, hasContent, onAddCalls, lastOnAdd>>

Keys == {"Enter", "Escape", "a"}

\* a step of the form leaves the sanitizer, the store and the task item alone
AddFormFrame == UNCHANGED <<phase, out, outScript, plain, storeVars, itemVars>>

AddFormNext ==
    \/ AddFormFrame /\ \E h \in EditorInputs : handleInput(h)
    \/ AddFormFrame /\ EditorFocus
    \/ AddFormFrame /\ \E p \in Priorities : SetPriority(p)
    \/ AddFormFrame /\ \E d \in DueDates : SetDueDate(d)
    \/ AddFormFrame /\ \E v \in SanitizerVersions : handleFormSubmit(v)
    \/ AddFormFrame /\ \E key \in Keys, shiftKey \in BOOLEAN, v \in SanitizerVersions :
                            handleKeyDown(key, shiftKey, v)

AddFormInit ==
    /\ SanIdle
    /\ StoreIdle

SpecAddForm == AddFormInit /\ [][AddFormNext]_vars

----------------------------------------------------------------------------
(* A task item, TaskItem.tsx, with onUpdate as a prop that is only called.   *)
(* editor is the innerHTML of the title editor, which is there while         *)
(* isEditing holds; events reach only what is rendered.                      *)

\* the tasks an item is rendered for
ItemTasks == {StoredTask(0, <<"a">>), [StoredTask(0, <<"a">>) EXCEPT !.completed = TRUE]}

\* setIsEditing(true), the render, and the effect that seeds the editor with
\* the title
StartEditing ==
    /\ isEditing' = TRUE
    /\ editor' = task.title

\* a title whose click starts editing whatever the task
TitleClickAlways ==
    /\ ~isEditing
    /\ event' = "titleClick"
    /\ StartEditing
    /\ UNCHANGED <<task, isDragging, onUpdateCalls, lastOnUpdate>>

\* onClick of the title
TitleClick ==
    /\ ~isEditing
    /\ event' = "titleClick"
    /\ IF ~isDragging /\ ~task.completed
       THEN StartEditing
       ELSE UNCHANGED <<isEditing, editor>>
    /\ UNCHANGED <<task, isDragging, onUpdateCalls, lastOnUpdate>>

\* onKeyDown of the title
TitleKeyDown(key) ==
    /\ ~isEditing
    /\ event' = IF key = "Enter" THEN "titleEnter" ELSE "titleKey"
    /\ IF key = "Enter" /\ ~task.completed
       THEN StartEditing
       ELSE UNCHANGED <<isEditing, editor>>
    /\ UNCHANGED <<task, isDragging, onUpdateCalls, lastOnUpdate>>

\* useSortable: a drag of the item starts or ends
Drag ==
    /\ isDragging' = ~isDragging
    /\ event' = "drag"
    /\ UNCHANGED <<task, isEditing, editor, onUpdateCalls, lastOnUpdate>>

\* the parent renders the item with the task toggled
TaskToggled ==
    /\ task' = [task EXCEPT !.completed = ~task.completed]
    /\ event' = "toggled"
    /\ UNCHANGED <<isEditing, isDragging, editor, onUpdateCalls, lastOnUpdate>>

\* the user changes the content of the editor
EditorInput(h) ==
    /\ isEditing
    /\ editor' = h
    /\ event' = "input"
    /\ UNCHANGED <<task, isEditing, isDragging, onUpdateCalls, lastOnUpdate>>

\* a save that calls onUpdate whatever the editor holds
saveNoGuard(v) ==
    /\ onUpdateCalls' = onUpdateCalls + 1
    /\ lastOnUpdate' = [id |-> task.id, title |-> sanitizeTitleOf(v, editor)]
    /\ isEditing' = FALSE
    /\ editor' = <<>>

\* save()
save(v) ==
    /\ IF plainText(editor) # <<>>
       THEN /\ onUpdateCalls' = onUpdateCalls + 1
            /\ lastOnUpdate' = [id |-> task.id, title |-> sanitizeTitleOf(v, editor)]
       ELSE UNCHANGED <<onUpdateCalls, lastOnUpdate>>
    /\ isEditing' = FALSE
    /\ editor' = <<>>

\* onKeyDown of the editor
handleEditorKeyDown(key, shiftKey, v) ==
    /\ isEditing
    /\ onUpdateCalls < MaxCalls
    /\ IF key = "Enter" /\ ~shiftKey
       THEN /\ save(v)
            /\ event' = "enter"
       ELSE IF key = "Escape"
       THEN /\ isEditing' = FALSE
            /\ editor' = <<>>
            /\ event' = "escape"
            /\ UNCHANGED <<onUpdateCalls, lastOnUpdate>>
       ELSE /\ event' = IF key = "Enter" THEN "shiftEnter" ELSE "key"
            /\ UNCHANGED <<isEditing, editor, onUpdateCalls, lastOnUpdate>>
    /\ UNCHANGED <<task, isDragging>>

\* onBlur of the editor
EditorBlur(v) ==
    /\ isEditing
    /\ onUpdateCalls < MaxCalls
    /\ save(v)
    /\ event' = "blur"
    /\ UNCHANGED <<task, isDragging>>

\* a step of the item leaves the sanitizer, the store and the form alone
ItemFrame == UNCHANGED <<sanVars, storeVars, formVars>>

ItemNext ==
    \/ ItemFrame /\ TitleClick
    \/ ItemFrame /\ \E key \in Keys : TitleKeyDown(key)
    \/ ItemFrame /\ Drag
    \/ ItemFrame /\ TaskToggled
    \/ ItemFrame /\ \E h \in EditorInputs : EditorInput(h)
    \/ ItemFrame /\ \E key \in Keys, shiftKey \in BOOLEAN, v \in SanitizerVersions :
                         handleEditorKeyDown(key, shiftKey, v)
    \/ ItemFrame /\ \E v \in SanitizerVersions : EditorBlur(v)

\* an item rendered for an active or a completed task
ItemInit ==
    /\ SanIdle
    /\ \E tk \in ItemTasks :
        /\ task = tk
        /\ event = "none"
        /\ priority = "medium"
        /\ dueDate = ""
        /\ expanded = FALSE
        /\ hasContent = FALSE
        /\ onAddCalls = 0
        /\ lastOnAdd = [title |-> <<>>, priority |-> "medium", dueDate |-> Undefined]
        /\ isEditing = FALSE
        /\ isDragging = FALSE
        /\ editor = <<>>
        /\ onUpdateCalls = 0
        /\ lastOnUpdate = [id |-> -1, title |-> <<>>]
    /\ tasks = <<>>
    /\ filterStatus = "all"
    /\ filterPriority = "all"
    /\ storageError = Null
    /\ stored = [kind |-> "missing", items |-> <<>>]
    /\ lastSave = [dom |-> FALSE, code |-> 0, name |-> "none"]
    /\ loaded = "missing"
    /\ ifSaved = <<>>
    /\ pending = <<>>
    /\ lastRender = [calls |-> 0, saves |-> 0]
    /\ calls = 0
    /\ writable = TRUE
    /\ nextId = 1

SpecTaskItem == ItemInit /\ [][ItemNext]_vars

----------------------------------------------------------------------------
(* Reading a string as markup.  A tag is "<" or "</", a name that starts with *)
(* a letter and runs over letters, digits, "_" and "-", then white space, "/"  *)
(* or ">", and everything up to the next ">".  An HTML tokenizer opens a tag   *)
(* at each of these places (and at some more).                                 *)

IsLetter(c) == c \in LowerSet \/ c \in UpperSet

IsNameChar(c) == IsWordChar(c) \/ c = "-"

\* index of the first character of the tag name when "<" or "</" and a letter
\* stand at index i, 0 otherwise
NameStart(s, i) ==
    IF s[i] # "<" THEN 0
    ELSE IF i + 1 <= Len(s) /\ IsLetter(s[i + 1]) THEN i + 1
    ELSE IF i + 2 <= Len(s) /\ s[i + 1] = "/" /\ IsLetter(s[i + 2]) THEN i + 2
    ELSE 0

\* index of the last character of the name that starts at index n
NameEnd(s, n) ==
    LET E == {j \in n..Len(s) : ~IsNameChar(s[j])}
    IN  IF E = {} THEN Len(s) ELSE (CHOOSE j \in E : \A k \in E : j <= k) - 1

\* a tag opens at index i and is closed by a later ">"
IsTagAt(s, i) ==
    /\ NameStart(s, i) # 0
    /\ LET e == NameEnd(s, NameStart(s, i))
       IN  /\ e < Len(s)
           /\ IsSpace(s[e + 1]) \/ s[e + 1] \in {"/", ">"}
           /\ FirstGT(s, e + 1) # 0

\* the indices at which a tag opens, reading s from index i; the inside of a
\* tag is not read again
RECURSIVE TagStartsFrom(_, _)
TagStartsFrom(s, i) ==
    IF i > Len(s) THEN {}
    ELSE IF ~IsTagAt(s, i) THEN TagStartsFrom(s, i + 1)
    ELSE {i} \cup TagStartsFrom(s, FirstGT(s, i + 1) + 1)

TagStarts(s) == TagStartsFrom(s, 1)

\* the name of the tag that opens at index i, in lower case
TagName(s, i) ==
    LET n == NameStart(s, i)
    IN  [k \in 1..(NameEnd(s, n) - n + 1) |-> Lower(s[n + k - 1])]

OnlyAllowedTags(s) == \A i \in TagStarts(s) : TagName(s, i) \in AllowedNames

\* nothing stands between the name of an allowed tag and its ">"
BareTags(s) ==
    \A i \in TagStarts(s) :
        TagName(s, i) \in AllowedNames => s[NameEnd(s, NameStart(s, i)) + 1] = ">"

\* no allowed tag carries an attribute: between its name and its ">" stand
\* only white space and "/"
NoAttributes(s) ==
    \A i \in TagStarts(s) :
        TagName(s, i) \in AllowedNames =>
            \A j \in (NameEnd(s, NameStart(s, i)) + 1)..(FirstGT(s, i + 1) - 1) :
                IsSpace(s[j]) \/ s[j] = "/"

\* no markup but bare strong, em and u tags
CleanTitle(s) == OnlyAllowedTags(s) /\ BareTags(s)

----------------------------------------------------------------------------
(* Claims about the sanitizer, checked under SpecSanitize.                    *)

\* C1: for every input, the output of sanitizeTitle contains no tag, opening
\* or closing, whose name is other than strong, em or u.
\* The repository holds two versions of sanitizeTitle; the formula is violated
\* only by an input on which both break the claim.
C1_NoDisallowedTag ==
    phase = "done" => OnlyAllowedTags(out) \/ OnlyAllowedTags(outScript)

\* C2: for every input, every strong, em or u tag in the output of
\* sanitizeTitle carries no attribute of any kind, whatever separator (space,
\* tab, newline, slash) followed the tag name in the input.
\* Violated only by an input on which both versions break the claim.
C2_AllowedTagsAreBare ==
    phase = "done" => NoAttributes(out) \/ NoAttributes(outScript)

\* a occurs in b as a subsequence: its characters, in order, with others between
RECURSIVE IsSubseq(_, _)
IsSubseq(a, b) ==
    IF a = <<>> THEN TRUE
    ELSE IF b = <<>> THEN FALSE
    ELSE IF Head(a) = Head(b) THEN IsSubseq(Tail(a), Tail(b))
    ELSE IsSubseq(a, Tail(b))

\* C26: sanitizeTitle preserves the text content: for every input, the
\* characters lying outside tags (script content included) appear in the
\* output in their original order.  The text outside tags is read as
\* plainText reads it, without the white space at the ends.
\* Violated only by an input on which both versions lose text.
C26_TextIsPreserved ==
    phase = "done" => IsSubseq(plainText(html), out) \/ IsSubseq(plainText(html), outScript)

\* C27: sanitizeTitle('<script>alert(1)</script>text') is 'text', with
\* either sanitizeTitle of the sources.
C27_ScriptExampleGivesText ==
    (phase = "done" /\ html = ScriptExample) =>
        /\ out = <<"t", "e", "x", "t">>
        /\ outScript = <<"t", "e", "x", "t">>

\* every "<" of s opens a tag and every ">" closes one
WellFormed(s) ==
    /\ \A i \in 1..Len(s) : s[i] = "<" => i \in TagStarts(s)
    /\ \A j \in 1..Len(s) : s[j] = ">" => \E i \in TagStarts(s) : FirstGT(s, i + 1) = j

NoScript(s) == \A i \in TagStarts(s) : TagName(s, i) # <<"s", "c", "r", "i", "p", "t">>

\* no tag of s has a name that starts with b or i
NoLegacyTags(s) == \A i \in TagStarts(s) : Head(TagName(s, i)) \notin {"b", "i"}

TagClosing(s, i) == s[i + 1] = "/"

AfterName(s, i) == s[NameEnd(s, NameStart(s, i)) + 1]

\* the tag at index i is written <b>, <b followed by white space, or </b>
\* (likewise i)
PlainForm(s, i) ==
    IF TagClosing(s, i) THEN AfterName(s, i) = ">"
    ELSE AfterName(s, i) = ">" \/ IsSpace(AfterName(s, i))

\* what the tag at index i stands for after normalisation: strong for b and
\* strong, em for i and em, each opening or closing, nothing for other tags.
\* With anyForm every b and i tag counts, otherwise those in plain form.
StrongEmOfTag(s, i, anyForm) ==
    LET name == TagName(s, i)
        mark(n) == <<[closing |-> TagClosing(s, i), name |-> n]>>
    IN  IF name = <<"b">> THEN (IF anyForm \/ PlainForm(s, i) THEN mark(StrongName) ELSE <<>>)
        ELSE IF name = <<"i">> THEN (IF anyForm \/ PlainForm(s, i) THEN mark(EmName) ELSE <<>>)
        ELSE IF name = StrongName THEN mark(StrongName)
        ELSE IF name = EmName THEN mark(EmName)
        ELSE <<>>

RECURSIVE StrongEmFrom(_, _, _)
StrongEmFrom(s, i, anyForm) ==
    IF i > Len(s) THEN <<>>
    ELSE IF ~IsTagAt(s, i) THEN StrongEmFrom(s, i + 1, anyForm)
    ELSE StrongEmOfTag(s, i, anyForm) \o StrongEmFrom(s, FirstGT(s, i + 1) + 1, anyForm)

NoOuterSpace(s) == s = <<>> \/ (~IsSpace(s[1]) /\ ~IsSpace(s[Len(s)]))

\* s holds a match of /<[^>]+>/
HasTag(s) ==
    \E i \in 1..Len(s) :
        /\ s[i] = "<"
        /\ i + 1 <= Len(s)
        /\ s[i + 1] # ">"
        /\ \E j \in (i + 2)..Len(s) : s[j] = ">"

\* s is tags from index i on, one after the other
RECURSIVE TagsOnlyFrom(_, _)
TagsOnlyFrom(s, i) ==
    \/ i > Len(s)
    \/ /\ s[i] = "<"
       /\ i + 1 <= Len(s)
       /\ s[i + 1] # ">"
       /\ FirstGT(s, i + 2) # 0
       /\ TagsOnlyFrom(s, FirstGT(s, i + 2) + 1)

\* C29: for every input the output of plainText contains no tag at all and
\* no leading or trailing white space, plainText is idempotent, and for an
\* empty or tags-only input the output is the empty string.
C29_PlainTextIsPlain ==
    phase = "done" =>
        /\ ~HasTag(plain)
        /\ NoOuterSpace(plain)
        /\ plainText(plain) = plain
        /\ TagsOnlyFrom(html, 1) => plain = <<>>

\* a tag, a blank and a letter went in and the letter came out
C29_Witness ==
    /\ phase = "done"
    /\ html = <<"<", "b", ">", " ", "t">>
    /\ plain = <<"t">>

----------------------------------------------------------------------------
(* Reading a collection: the ids in it, and reference operators against      *)
(* which the steps of the store are compared.                                *)

TaskIds(ts) == {ts[k].id : k \in 1..Len(ts)}

\* ts without the element at 1-based index i
RemoveAt(ts, i) == SubSeq(ts, 1, i - 1) \o SubSeq(ts, i + 1, Len(ts))

\* ts without the tasks whose id is id, read from the front
RECURSIVE WithoutId(_, _)
WithoutId(ts, id) ==
    IF ts = <<>> THEN <<>>
    ELSE IF Head(ts).id = id THEN WithoutId(Tail(ts), id)
    ELSE <<Head(ts)>> \o WithoutId(Tail(ts), id)

\* t with its completed flag flipped and every other field as it is
Flipped(t) ==
    [id |-> t.id, title |-> t.title, completed |-> ~t.completed,
     priority |-> t.priority, createdAt |-> t.createdAt, dueDate |-> t.dueDate]

----------------------------------------------------------------------------
(* Claims about the store, checked under Spec.                               *)

\* C3: in every reachable state of the store, the title of every task holds
\* no markup other than bare strong, em and u tags.
C3_TitlesAreClean ==
    \A k \in 1..Len(tasks) : CleanTitle(tasks[k].title)

\* C4: in every reachable state, the state right after the initial load
\* included, no two tasks of the collection have the same id.
C4_IdsAreUnique ==
    \A j \in 1..Len(tasks), k \in 1..Len(tasks) :
        tasks[j].id = tasks[k].id => j = k

\* C5: after every add call the new task is at index 0, is not completed, has
\* the given priority and dueDate and the trimmed title, and the tasks that
\* were present follow it in their previous order.
C5_AddPutsNewTaskFirst ==
    \A input \in NewTaskInputs(nextId) :
        LET after == addTask(tasks, input, nextId, nextId)
        IN  /\ Len(after) = Len(tasks) + 1
            /\ after[1].id = nextId
            /\ after[1].completed = FALSE
            /\ after[1].priority = input.priority
            /\ after[1].dueDate = input.dueDate
            /\ after[1].title = Trim(input.title)
            /\ NoOuterSpace(after[1].title)
            /\ Tail(after) = tasks

\* two adds after the load of one task: the younger task is in front of the
\* older, the loaded one is last, each with what its add was given
C5_Witness ==
    /\ Len(tasks) = 3
    /\ tasks[1].id = 2 /\ tasks[1].title = TitleB /\ tasks[1].priority = "high"
    /\ tasks[1].dueDate = "2026-12-31" /\ ~tasks[1].completed
    /\ tasks[2].id = 1 /\ tasks[2].title = <<"a">> /\ tasks[2].priority = "low"
    /\ tasks[2].dueDate = Undefined /\ ~tasks[2].completed
    /\ tasks[3].id = 0

\* C6: for an id that is present, a toggle flips the completed flag of the
\* task with that id and changes nothing else (no other field, no other task,
\* not the order), and a second toggle of the same id gives the prior
\* collection back.
C6_ToggleIsItsOwnInverse ==
    \A id \in TaskIds(tasks) :
        LET after == toggleTask(tasks, id)
        IN  /\ Len(after) = Len(tasks)
            /\ \A k \in 1..Len(tasks) :
                  after[k] = IF tasks[k].id = id THEN Flipped(tasks[k]) ELSE tasks[k]
            /\ toggleTask(after, id) = tasks

\* one task is completed, between two that are not
C6_Witness ==
    /\ Len(tasks) = 3
    /\ tasks[2].completed
    /\ ~tasks[1].completed /\ ~tasks[3].completed

\* C7: toggle, update and delete with an id that is not in the collection
\* leave the collection (tasks, fields, order) as it is.
C7_UnknownIdChangesNothing ==
    \A id \in Ids \ TaskIds(tasks) :
        /\ toggleTask(tasks, id) = tasks
        /\ deleteTask(tasks, id) = tasks
        /\ \A title \in UpdateTitles : updateTask(tasks, id, title) = tasks

\* two tasks, one of them completed, and two ids that no task has: one of a
\* task that is gone and one that is never handed out
C7_Witness ==
    /\ Len(tasks) = 2
    /\ nextId = 3
    /\ \E k \in 1..2 : tasks[k].completed
    /\ Cardinality(Ids \ TaskIds(tasks)) = 2

\* C8: delete(id) takes out the task with that id and nothing else, the other
\* tasks keep their order, and a second delete(id) changes nothing.
C8_DeleteRemovesOnlyThatTask ==
    \A id \in Ids :
        LET after == deleteTask(tasks, id)
        IN  /\ after = WithoutId(tasks, id)
            /\ id \notin TaskIds(after)
            /\ Len(after) = Len(tasks) - Cardinality({k \in 1..Len(tasks) : tasks[k].id = id})
            /\ deleteTask(after, id) = after

\* the older of the two tasks created in the session is gone; the younger and
\* the loaded one are there, in their order and as they were
C8_Witness ==
    /\ nextId = 3
    /\ Len(tasks) = 2
    /\ tasks[1].id = 2 /\ tasks[2].id = 0
    /\ ~tasks[1].completed /\ ~tasks[2].completed
    /\ tasks[1].title = TitleB /\ tasks[2].title = <<"a">>

\* C9: reorder(x, x) leaves the collection unchanged for every id x, and so
\* does reorder(a, o) when a or o is not the id of a task in the collection.
C9_ReorderNoOps ==
    \A a \in Ids, o \in Ids :
        (a = o \/ a \notin TaskIds(tasks) \/ o \notin TaskIds(tasks))
            => reorderTasks(tasks, a, o) = tasks

\* three tasks with three ids, and an id that no task has
C9_Witness ==
    /\ Len(tasks) = 3
    /\ Cardinality(TaskIds(tasks)) = 3
    /\ Ids \ TaskIds(tasks) # {}

\* C10: for ids a and o that are both present, reorder(a, o) puts task a at
\* the index task o had before the call and keeps the order of all other
\* tasks (remove then insert, not a swap); the length and the tasks are the
\* same as before.
C10_ReorderMoves ==
    \A a \in TaskIds(tasks), o \in TaskIds(tasks) :
        LET from  == findIndex(tasks, a) + 1
            to    == findIndex(tasks, o) + 1
            after == reorderTasks(tasks, a, o)
        IN  /\ Len(after) = Len(tasks)
            /\ after[to] = tasks[from]
            /\ RemoveAt(after, to) = RemoveAt(tasks, from)

\* the order 1, 0, 2 of the tasks added as 0, 1, 2: the newest task was moved
\* from the front to the end, and the two others moved up by one
C10_Witness ==
    /\ Len(tasks) = 3
    /\ tasks[1].id = 1 /\ tasks[2].id = 0 /\ tasks[3].id = 2

\* the indices of ts at which a completed task stands
DoneAt(ts) == {k \in 1..Len(ts) : ts[k].completed}

\* ts without its completed tasks, read from the front
RECURSIVE WithoutDone(_)
WithoutDone(ts) ==
    IF ts = <<>> THEN <<>>
    ELSE IF Head(ts).completed THEN WithoutDone(Tail(ts))
    ELSE <<Head(ts)>> \o WithoutDone(Tail(ts))

\* C11: clearCompleted removes exactly the tasks whose completed flag is
\* true, leaves the others as they are and in their order, and leaves the
\* collection unchanged when no task is completed.
C11_ClearRemovesCompleted ==
    LET after == clearCompleted(tasks)
    IN  /\ after = WithoutDone(tasks)
        /\ DoneAt(after) = {}
        /\ Len(after) = Len(tasks) - Cardinality(DoneAt(tasks))
        /\ DoneAt(tasks) = {} => after = tasks

\* a completed task between two that are not: clearing takes out the one in
\* the middle
C11_Witness ==
    /\ Len(tasks) = 3
    /\ DoneAt(tasks) = {2}
    /\ clearCompleted(tasks) = <<tasks[1], tasks[3]>>

\* C12: in every reachable state stats.total is the length of the full
\* collection, stats.active + stats.completed = stats.total, and stats counts
\* the full collection whatever the filters are.
C12_StatsCountTheCollection ==
    /\ stats.total = Len(tasks)
    /\ stats.active + stats.completed = stats.total
    /\ stats.completed = Cardinality(DoneAt(tasks))
    /\ stats.active = Len(tasks) - Cardinality(DoneAt(tasks))

\* both filters are set and hide tasks, completed and not, that stats counts
C12_Witness ==
    /\ filterStatus = "completed"
    /\ filterPriority = "high"
    /\ Len(filteredTasks) = 1
    /\ stats = [total |-> 3, active |-> 1, completed |-> 2]

\* what the status filter and the priority filter let through
StatusPredicate(f, t) ==
    CASE f = "all"       -> TRUE
      [] f = "active"    -> ~t.completed
      [] f = "completed" -> t.completed

PriorityPredicate(f, t) ==
    CASE f = "all" -> TRUE
      [] OTHER     -> t.priority = f

\* the tasks of ts that both predicates let through, read from the front
RECURSIVE Visible(_, _, _)
Visible(ts, fs, fp) ==
    IF ts = <<>> THEN <<>>
    ELSE IF StatusPredicate(fs, Head(ts)) /\ PriorityPredicate(fp, Head(ts))
         THEN <<Head(ts)>> \o Visible(Tail(ts), fs, fp)
         ELSE Visible(Tail(ts), fs, fp)

\* C13: in every reachable state the visible list is the subsequence, in
\* collection order, of the tasks that satisfy the status predicate and the
\* priority predicate; with both filters at "all" it is the full collection.
C13_ViewIsFilteredCollection ==
    /\ filteredTasks = Visible(tasks, filterStatus, filterPriority)
    /\ (filterStatus = "all" /\ filterPriority = "all") => filteredTasks = tasks

\* of three tasks only the one in the middle passes both filters: the first
\* fails the priority filter alone, the last fails both
C13_Witness ==
    /\ filterStatus = "active"
    /\ filterPriority = "high"
    /\ Len(tasks) = 3
    /\ ~tasks[1].completed /\ tasks[1].priority = "low"
    /\ ~tasks[2].completed /\ tasks[2].priority = "high"
    /\ tasks[3].completed /\ tasks[3].priority = "medium"
    /\ filteredTasks = <<tasks[2]>>

\* C14: update(id, title) with an id that is present sets the title of that
\* task to exactly the string given and changes nothing else: not its id,
\* completed, priority, createdAt or dueDate, not its position, not any other
\* task.
C14_UpdateSetsOnlyTheTitle ==
    \A id \in TaskIds(tasks), title \in UpdateTitles :
        LET after == updateTask(tasks, id, title)
        IN  /\ Len(after) = Len(tasks)
            /\ \A k \in 1..Len(tasks) :
                  after[k] =
                      IF tasks[k].id = id
                      THEN [id        |-> tasks[k].id,
                            title     |-> title,
                            completed |-> tasks[k].completed,
                            priority  |-> tasks[k].priority,
                            createdAt |-> tasks[k].createdAt,
                            dueDate   |-> tasks[k].dueDate]
                      ELSE tasks[k]

\* the task created second holds the title given to update, verbatim, with
\* the fields of its creation and a completed flag set before; the tasks
\* around it hold their own titles
C14_Witness ==
    /\ Len(tasks) = 3
    /\ tasks[2] = [id |-> 2, title |-> TitleDirty, completed |-> TRUE,
                   priority |-> "high", createdAt |-> 2, dueDate |-> "2026-12-31"]
    /\ tasks[1].title = <<"a">>
    /\ tasks[3].title = <<"a">>

\* C15: the persistence error state reflects the outcome of the most recent
\* save attempt: "full" if it failed with a quota error, "disabled" if it
\* failed with any other error, null if it succeeded; so an error left by a
\* failed save is cleared by the next save that succeeds.
C15_ErrorFollowsLastSave ==
    /\ storageError = IF lastSave = NoThrow THEN Null
                      ELSE IF lastSave \in QuotaErrors THEN "full"
                      ELSE "disabled"
    /\ errorAfterSave(NoThrow) = Null
    /\ \A err \in ThrownErrors :
          errorAfterSave(err) = IF err \in QuotaErrors THEN "full" ELSE "disabled"

\* the storage works again, and the state still tells of the last attempt,
\* which failed for lack of space; the next save will clear it
C15_Witness ==
    /\ writable
    /\ lastSave = QuotaExceeded
    /\ storageError = "full"
    /\ Len(tasks) = 2
    /\ ENABLED (ToggleTask(tasks[1].id, NoThrow) /\ storageError' = Null)

\* C16: a save of the loaded collection is attempted when the store is
\* constructed and its outcome alone gives the first error state; a load that
\* failed (storage unreadable, stored value corrupt) never by itself puts the
\* store in the state "full" or "disabled".
C16_LoadSetsNoError ==
    /\ storageError \in {"full", "disabled"} => lastSave \in SetItemErrors
    /\ loaded \in {"unreadable", "corrupt"} /\ lastSave = NoThrow => storageError = Null
    /\ nextId = 1 /\ lastSave = NoThrow => stored = JsonItem(tasks)

\* a store constructed over a corrupt value whose first save worked: no
\* error, and the storage holds the empty collection
C16_Witness ==
    /\ loaded = "corrupt"
    /\ nextId = 1
    /\ tasks = <<>>
    /\ lastSave = NoThrow
    /\ storageError = Null
    /\ stored = JsonItem(<<>>)

\* C17: the collection that add, toggle, update, delete, clearCompleted and
\* reorder give does not depend on whether saving works: after any sequence
\* of calls it is the collection the same calls give when every save
\* succeeds.
C17_MutationsIgnoreSaveFailures ==
    tasks = ifSaved

\* no save has ever succeeded, and two tasks were added, one was completed
\* and one was given a new title
C17_Witness ==
    /\ ~writable
    /\ loaded = "missing"
    /\ stored = MissingItem
    /\ storageError = "disabled"
    /\ Len(tasks) = 2
    /\ tasks[1].completed /\ tasks[2].title = TitleDirty
    /\ tasks[1].id = 1 /\ tasks[2].id = 2

\* C18: loading never raises: with the key missing, with a stored value that
\* is not JSON and with a storage that cannot be read the store starts with
\* the empty collection.
C18_FailedLoadGivesEmpty ==
    /\ \A item \in {MissingItem, UnreadableItem, CorruptItem} : loadTasks(item) = <<>>
    /\ loaded # "json" /\ nextId = 1 => tasks = <<>>

\* a store constructed over a storage that can be neither read nor written
C18_Witness ==
    /\ loaded = "unreadable"
    /\ stored = UnreadableItem
    /\ ~writable
    /\ nextId = 1
    /\ tasks = <<>>

\* C19: every save that succeeds puts the serialization of the full
\* collection, whatever the filters, in place of the stored value, and a store
\* constructed afterwards loads a collection equal to the one saved: the same
\* tasks, fields and order.
C19_SavedCollectionLoadsBack ==
    lastSave = NoThrow =>
        /\ stored.kind = "json"
        /\ Len(stored.items) = Len(tasks)
        /\ \A k \in 1..Len(tasks) :
              /\ stored.items[k].id = tasks[k].id
              /\ stored.items[k].title = tasks[k].title
              /\ stored.items[k].completed = tasks[k].completed
              /\ stored.items[k].priority = tasks[k].priority
              /\ stored.items[k].createdAt = tasks[k].createdAt
              /\ tasks[k].dueDate # Undefined => stored.items[k].dueDate = tasks[k].dueDate
        /\ loadTasks(stored) = tasks

\* the filters show one of three tasks, one task has a due date and two have
\* none, and the last save put all three in the storage
C19_Witness ==
    /\ lastSave = NoThrow
    /\ filterStatus = "completed"
    /\ filterPriority = "high"
    /\ Len(tasks) = 3
    /\ Len(filteredTasks) = 1
    /\ Len(stored.items) = 3
    /\ \E k \in 1..3 : tasks[k].dueDate = Undefined
    /\ loadTasks(stored) = tasks

\* C20: setStatusFilter and setPriorityFilter change only their filter value:
\* the collection, stats, the stored value and the persistence error state
\* are unchanged, and no save is attempted.
C20_FilterSettersChangeOnlyTheFilter ==
    [][(filterStatus' # filterStatus \/ filterPriority' # filterPriority) =>
          /\ filterStatus' = filterStatus \/ filterPriority' = filterPriority
          /\ tasks' = tasks
          /\ stats' = stats
          /\ stored' = stored
          /\ storageError' = storageError
          /\ lastSave' = lastSave]_vars

\* both filters were set while the error of a failed save stands, the storage
\* is writable again, and what is stored is behind the collection: a save
\* would have changed the error and the stored value
C20_Witness ==
    /\ filterStatus = "active"
    /\ filterPriority = "high"
    /\ writable
    /\ storageError = "disabled"
    /\ stored # JsonItem(tasks)
    /\ Len(tasks) = 2

----------------------------------------------------------------------------
(* Saves, identity and batches.                                              *)

\* every updater of the queue is a reorder that names an id the collection
\* does not hold
OnlyMissingReorders(q, ts) ==
    \A k \in 1..Len(q) :
        /\ q[k].op = "reorder"
        /\ q[k].id \notin TaskIds(ts) \/ q[k].over \notin TaskIds(ts)

Stamps(ts) == [k \in 1..Len(ts) |-> <<ts[k].id, ts[k].createdAt>>]

Among(ts, from) == \A k \in 1..Len(ts) : \E j \in 1..Len(from) : ts[k] = from[j]

\* C21 (as the spec states it): every call of add, toggle, update, delete,
\* clearCompleted or reorder is followed by one save attempt of the
\* collection that the call produced: a render makes as many save attempts
\* as the calls it serves.
C21_EveryCallIsSaved ==
    lastRender.saves = lastRender.calls

\* C21 (amended): the calls issued before a render are followed by one save
\* attempt for all of them, of the collection that the last of them
\* produced, and by none when every one of them is a reorder that names an
\* id the collection does not hold.
C21_OneSavePerRender ==
    [][(pending # <<>> /\ pending' = <<>>) =>
          IF OnlyMissingReorders(pending, tasks)
          THEN /\ lastRender'.saves = 0
               /\ UNCHANGED <<tasks, stored, storageError, lastSave>>
          ELSE /\ lastRender'.saves = 1
               /\ tasks' = ifSaved
               /\ lastSave' = NoThrow => stored' = JsonItem(ifSaved)
               /\ lastSave' # NoThrow => stored' = stored]_vars

\* a render served two calls with one save, which put in the storage the
\* collection that the second call produced
C21_Witness ==
    /\ lastRender = [calls |-> 2, saves |-> 1]
    /\ pending = <<>>
    /\ lastSave = NoThrow
    /\ Len(tasks) = 2
    /\ stored = JsonItem(tasks)

\* C22: a failed save is never retried on its own: a step that is not a
\* mutation (the storage becoming writable, a filter being set) makes no
\* save attempt and leaves the persistence error state and the stored value
\* as they are.
C22_NoSaveWithoutMutation ==
    [][(writable' # writable \/ filterStatus' # filterStatus \/ filterPriority' # filterPriority) =>
          UNCHANGED <<storageError, stored, lastSave, tasks>>]_vars

\* a save failed, the storage takes writes again, and the error and the
\* stored value of before the failure are still there
C22_Witness ==
    /\ writable
    /\ lastSave = QuotaExceeded
    /\ storageError = "full"
    /\ nextId = 2
    /\ stored # JsonItem(tasks)

\* C23: no operation changes the id or the createdAt of a task that is in
\* the collection, and the id given to a new task is one that no task of
\* the collection has or had.
C23_IdsAndStampsAreKept ==
    /\ \A k \in 1..Len(tasks) : tasks[k].id < nextId
    /\ \A k \in 1..Len(ifSaved) : ifSaved[k].id < nextId
    /\ \A id \in Ids :
          /\ Stamps(toggleTask(tasks, id)) = Stamps(tasks)
          /\ \A title \in UpdateTitles : Stamps(updateTask(tasks, id, title)) = Stamps(tasks)
          /\ Among(deleteTask(tasks, id), tasks)
    /\ Among(clearCompleted(tasks), tasks)
    /\ \A a \in Ids, o \in Ids : Among(reorderTasks(tasks, a, o), tasks)
    /\ \A input \in NewTaskInputs(nextId) :
          /\ Tail(addTask(tasks, input, nextId, nextId)) = tasks
          /\ Head(addTask(tasks, input, nextId, nextId)).id \notin TaskIds(tasks)

\* the task of id 1 was added and deleted, and the next id is 2
C23_Witness ==
    /\ nextId = 2
    /\ calls = 2
    /\ pending = <<>>
    /\ tasks # <<>>
    /\ 1 \notin TaskIds(tasks)

\* C30: operations issued one after another before a render are each applied
\* to the collection that the one before produced, in call order: after the
\* render the collection is the one obtained by running the operations one
\* at a time.
C30_BatchEqualsOneAtATime ==
    pending = <<>> => tasks = ifSaved

\* two tasks were added in one batch and both are in the collection, the
\* second before the first
C30_Witness ==
    /\ lastRender.calls = 2
    /\ pending = <<>>
    /\ Len(tasks) = 2
    /\ tasks[1].id = 2
    /\ tasks[2].id = 1

----------------------------------------------------------------------------
(* Empty titles.                                                             *)

\* C24: add called with a title whose plain-text view is empty after
\* trimming is a silent no-op: a step that puts a new task in the collection
\* made it from a title that has text.
C24_AddNeedsText ==
    [][Len(tasks') > Len(tasks) => plainText(Head(tasks').title) # <<>>]_vars

\* C25: in every reachable state of the store the title of every task of
\* the collection is non-empty after trimming.
C25_TitlesAreNotEmpty ==
    \A k \in 1..Len(tasks) : Trim(tasks[k].title) # <<>>

----------------------------------------------------------------------------
(* The components.                                                           *)

Blank(s) == \A k \in 1..Len(s) : IsSpace(s[k])

\* C31: the add-task form calls onAdd only when the plain-text view of the
\* editor content is non-empty, and then through Enter without Shift or the
\* form's submit; with empty or blank content no event calls onAdd,
\* Shift+Enter never calls onAdd, and after a submission that calls onAdd
\* the editor is empty, the priority 'medium', the due date unset and the
\* options collapsed.
C31_FormCallsOnAddForText ==
    [][/\ onAddCalls' # onAddCalls =>
            /\ plainText(html) # <<>>
            /\ event' \in {"enter", "submit"}
            /\ onAddCalls' = onAddCalls + 1
            /\ html' = <<>>
            /\ priority' = "medium"
            /\ dueDate' = ""
            /\ ~expanded'
            /\ ~hasContent'
       /\ Blank(html) => onAddCalls' = onAddCalls
       /\ event' = "shiftEnter" => onAddCalls' = onAddCalls]_vars

\* a task of high priority with a due date was submitted, the form went back
\* to 'medium' and no date, and Enter on blanks typed afterwards called nothing
C31_Witness ==
    /\ onAddCalls = 1
    /\ lastOnAdd.priority = "high"
    /\ lastOnAdd.dueDate = "2026-12-31"
    /\ event = "enter"
    /\ html = <<" ", " ">>
    /\ priority = "medium"
    /\ dueDate = ""

\* C32: while a task item is in edit mode, Enter without Shift or a blur
\* calls onUpdate(task id, sanitizeTitle(editor content)) exactly when the
\* plain-text view of the editor content is non-empty and then leaves edit
\* mode; Escape leaves edit mode without calling onUpdate; Shift+Enter
\* neither saves nor leaves edit mode.
C32_EditSavesTextOrLeaves ==
    [][isEditing =>
          /\ event' \in {"enter", "blur"} =>
                /\ ~isEditing'
                /\ IF plainText(editor) # <<>>
                   THEN /\ onUpdateCalls' = onUpdateCalls + 1
                        /\ lastOnUpdate'.id = task.id
                        /\ lastOnUpdate'.title \in {sanitizeTitle(editor), sanitizeTitleScript(editor)}
                   ELSE UNCHANGED <<onUpdateCalls, lastOnUpdate>>
          /\ event' = "escape" => ~isEditing' /\ UNCHANGED <<onUpdateCalls, lastOnUpdate>>
          /\ event' = "shiftEnter" => isEditing' /\ UNCHANGED <<editor, onUpdateCalls, lastOnUpdate>>]_vars

\* the editor held '<u>b</u>', Enter called onUpdate with it and the item
\* left edit mode
C32_Witness ==
    /\ onUpdateCalls = 1
    /\ lastOnUpdate = [id |-> 0, title |-> TitleB]
    /\ event = "enter"
    /\ ~isEditing

\* C33: a task item enters edit mode only through a click or Enter key on
\* the title of a task that is not completed, and for a click not being
\* dragged; for a completed task neither ever enters edit mode.
C33_EditStartsOnActiveTitle ==
    [][(~isEditing /\ isEditing') =>
          /\ event' \in {"titleClick", "titleEnter"}
          /\ ~task.completed
          /\ event' = "titleClick" => ~isDragging
          /\ editor' = task.title]_vars

\* the title of a completed task was clicked and the item is not in edit mode
C33_Witness ==
    /\ task.completed
    /\ event = "titleClick"
    /\ ~isEditing
    /\ ~isDragging

\* C34: whenever the store is at rest (no call waits for its render and
\* save) and the persistence error state is null, the stored value is the
\* serialization of the current full collection, also after operations that
\* leave the collection unchanged and after the initial save that follows
\* the load of a missing or corrupt value.
C34_NoErrorMeansStoredIsCurrent ==
    (pending = <<>> /\ storageError = Null) => stored = JsonItem(tasks)

\* the stored value was corrupt, a task was added and saved, and a reorder
\* with an unknown id was rendered without a save
C34_Witness ==
    /\ loaded = "corrupt"
    /\ Len(tasks) = 1
    /\ lastRender = [calls |-> 1, saves |-> 0]
    /\ pending = <<>>
    /\ storageError = Null
    /\ stored = JsonItem(tasks)

\* the tasks of ts that the filters hide, in collection order
RECURSIVE Hidden(_, _, _)
Hidden(ts, fs, fp) ==
    IF ts = <<>> THEN <<>>
    ELSE IF StatusPredicate(fs, Head(ts)) /\ PriorityPredicate(fp, Head(ts))
         THEN Hidden(Tail(ts), fs, fp)
         ELSE <<Head(ts)>> \o Hidden(Tail(ts), fs, fp)

\* C35: for any filter setting and any two distinct tasks a and o of the
\* visible list, reorder(a, o) on the full collection changes the visible
\* list as an array-move within the visible list would: a is at the visible
\* index o had, the other visible tasks keep their order, and the hidden
\* tasks keep their order among themselves.
C35_ReorderMovesWithinTheView ==
    LET V == filteredTasks
    IN  \A i \in 1..Len(V), j \in 1..Len(V) :
            i # j =>
                LET after == reorderTasks(tasks, V[i].id, V[j].id)
                IN  /\ Visible(after, filterStatus, filterPriority) = arrayMove(V, i - 1, j - 1)
                    /\ Hidden(after, filterStatus, filterPriority)
                          = Hidden(tasks, filterStatus, filterPriority)

\* C36: sanitizeTitle is idempotent: for every input string s,
\* sanitizeTitle(sanitizeTitle(s)) equals sanitizeTitle(s).
\* Violated only by an input on which neither version is idempotent.
C36_SanitizeTwiceIsSanitizeOnce ==
    phase = "done" => sanitizeTitle(out) = out \/ sanitizeTitleScript(outScript) = outScript

\* C37: for every string s, if plainText(s) is non-empty then
\* sanitizeTitle(s) is non-empty, so that the titles the forms pass on, gated
\* on plainText, are non-empty.
\* Violated only by an input on which both versions return the empty string.
C37_TextGivesATitle ==
    (phase = "done" /\ plain # <<>>) => out # <<>> \/ outScript # <<>>

\* C38: for every value stored under 'taskflow-tasks' at initialization, a
\* value that parses as JSON but is not an array of task records included, the
\* collection held by the store is an ordered sequence of task records, so
\* that the visible list and the stats are defined in every reachable state.
C38_CollectionIsASequenceOfTasks ==
    /\ isArray(loaded)
    /\ \A k \in 1..Len(tasks) :
           {"id", "title", "completed", "priority", "createdAt"} \subseteq DOMAIN tasks[k]
    /\ Len(filteredTasks) <= stats.total

====
